---- MODULE Spec2Model ----
(***************************************************************************)
(* Verification model of jtwill/subliminal:                                *)
(*   - providers/addic7ed.py     Addic7edProvider.query (cascading show-id *)
(*                               resolution), Addic7edSubtitle matcher     *)
(*   - providers/opensubtitles.py OpenSubtitlesSubtitle matcher            *)
(*   - score.py                  the episode and movie equation systems    *)
(*                                                                         *)
(* Text is modelled as sequences of one-character strings, Python's None   *)
(* as the empty tuple and a present value v as <<v>>.                      *)
(***************************************************************************)
EXTENDS Integers, Sequences, FiniteSets, TLC

VARIABLES
    \* ---- Addic7edProvider.query ----
    pc,           \* position inside query
    series,       \* argument: series name
    year,         \* argument: None or <<year>>
    episode,      \* argument: requested episode number
    languages,    \* argument: requested languages
    shows,        \* the site's /shows.php list: sequence of [title, code]
    show_ids,     \* local show_ids (result of get_show_ids)
    show_id,      \* local show_id: None or <<id>>
    sub_year,     \* local sub_year
    sub_series,   \* local sub_series
    series_fix,   \* local series_fix
    series_clean, \* local series_clean
    stage,        \* which attempt runs: 1 with year, 2 without, 3 rm_par
    lookups,      \* log of index tests and find_show_id calls, in order
    requests,     \* log of HTTP requests made through get()
    find_memo,    \* values held by the cache region for find_show_id
    result,       \* what query gave back: pending, a list, or a raise
    soup,         \* local soup of line 232: None or <<rows of the season page>>
    \* ---- compute_matches ----
    provider,     \* which matcher is applied
    video,        \* the Video argument
    subtitle,     \* the subtitle (candidate) the method is called on
    guessed,      \* what the guess helpers report for the release text
    matches,      \* outcome of compute_matches
    \* ---- score.py ----
    kind,         \* which equation system is solved
    known,        \* symbols the solver has determined so far
    weight,       \* the values determined so far
    matchset,     \* a match set being scored
    last,         \* the attribute added to matchset last, and the score before
    \* ---- OpenSubtitlesProvider.query ----
    os_pc,        \* position inside query
    os_args,      \* arguments hash, size, imdb_id, query, season, episode
    os_languages, \* argument: requested languages
    searches,     \* local searches
    os_requests,  \* log of SearchSubtitles calls
    os_result     \* what query gave back: pending, a list, or a raise

qvars == <<pc, series, year, episode, languages, shows, show_ids, show_id, sub_year,
           sub_series, series_fix, series_clean, stage, lookups, requests,
           find_memo, result, soup>>
mvars == <<provider, video, subtitle, guessed, matches>>
svars == <<kind, known, weight, matchset, last>>
ovars == <<os_pc, os_args, os_languages, searches, os_requests, os_result>>
vars == <<qvars, mvars, svars, ovars>>

None == <<>>
Some(v) == <<v>>

\* ------------------------------------------------------------------ text

\* Length bound of the enumerated series names (without qualifier).
MaxLen == 2

\* Characters the enumerated names are made of: an upper-case letter, a
\* letter with a diacritic, '&', one of the removed punctuation marks, space.
Alphabet == {"S", "e'", "&", ".", " "}

RECURSIVE Words(_)
Words(n) == IF n = 0 THEN {<<>>}
            ELSE Words(n - 1) \cup {Append(w, c) : w \in {x \in Words(n - 1) : Len(x) = n - 1}, c \in Alphabet}

\* unicode.lower() on one character
UpperCase == <<"A", "B", "C", "D", "E", "F", "G", "H", "I", "J", "K", "L", "M",
               "N", "O", "P", "Q", "R", "S", "T", "U", "V", "W", "X", "Y", "Z">>
LowerCase == <<"a", "b", "c", "d", "e", "f", "g", "h", "i", "j", "k", "l", "m",
               "n", "o", "p", "q", "r", "s", "t", "u", "v", "w", "x", "y", "z">>

LowerChar(c) == IF \E i \in 1..Len(UpperCase) : UpperCase[i] = c
                THEN LowerCase[CHOOSE i \in 1..Len(UpperCase) : UpperCase[i] = c]
                ELSE c

lower(s) == [i \in 1..Len(s) |-> LowerChar(s[i])]

RECURSIVE Flatten(_)
Flatten(ss) == IF ss = <<>> THEN <<>> ELSE Head(ss) \o Flatten(Tail(ss))

\* unicodedata.normalize('NFKD', c).encode('ascii', 'ignore'): the base
\* letter survives, the combining mark is dropped.
ToAscii(c) == IF c = "e'" THEN <<"e">> ELSE <<c>>

Punctuation == {"?", "!", ".", "'", ",", "/", ":", "-"}

\* re.sub('[ ]{2,}', ' ', s)
RECURSIVE CompressSpaces(_)
CompressSpaces(s) ==
    IF Len(s) < 2 THEN s
    ELSE IF s[1] = " " /\ s[2] = " " THEN CompressSpaces(Tail(s))
    ELSE <<s[1]>> \o CompressSpaces(Tail(s))

clean_series(series_str) ==
    LET filtered_str == Flatten([i \in 1..Len(series_str) |-> ToAscii(series_str[i])])
        anded == Flatten([i \in 1..Len(filtered_str) |->
                    IF filtered_str[i] = "&" THEN <<"a", "n", "d">> ELSE <<filtered_str[i]>>])
        stripped == SelectSeq(anded, LAMBDA c : c \notin Punctuation)
    IN lower(CompressSpaces(stripped))

\* rm_par (subliminal/subtitle.py): removes a parenthesized qualifier such
\* as " (US)" together with the blanks in front of it.
RECURSIVE DropToClose(_)
DropToClose(s) == IF s = <<>> THEN <<>>
                  ELSE IF Head(s) = ")" THEN Tail(s)
                  ELSE DropToClose(Tail(s))

RECURSIVE RStrip(_)
RStrip(s) == IF s # <<>> /\ s[Len(s)] = " " THEN RStrip(SubSeq(s, 1, Len(s) - 1)) ELSE s

RECURSIVE RmParFrom(_, _)
RmParFrom(done, rest) ==
    IF rest = <<>> THEN done
    ELSE IF Head(rest) = "(" /\ \E i \in 1..Len(rest) : rest[i] = ")"
         THEN RmParFrom(RStrip(done), DropToClose(rest))
    ELSE RmParFrom(Append(done, Head(rest)), Tail(rest))

rm_par(s) == RmParFrom(<<>>, s)

\* '%d' % n
DigitChar(d) == CASE d = 0 -> "0" [] d = 1 -> "1" [] d = 2 -> "2" [] d = 3 -> "3"
                  [] d = 4 -> "4" [] d = 5 -> "5" [] d = 6 -> "6" [] d = 7 -> "7"
                  [] d = 8 -> "8" [] d = 9 -> "9"

RECURSIVE FormatInt(_)
FormatInt(n) == IF n < 10 THEN <<DigitChar(n)>>
                ELSE Append(FormatInt(n \div 10), DigitChar(n % 10))

\* ' (%d)' % year
YearSuffix(y) == <<" ", "(">> \o FormatInt(y) \o <<")">>

\* ------------------------------------------------- Addic7edProvider.query

Qualifiers == {<<>>, <<" ", "(", "U", "S", ")">>}

ShowNameUS == <<"S", "h", "o", "w", " ", "N", "a", "m", "e", " ", "(", "U", "S", ")">>

\* Series names given to query: a word, with or without a qualifier, and
\* "Show Name (US)".
Names == {w \o q : w \in Words(MaxLen) \ {<<>>}, q \in Qualifiers} \cup {ShowNameUS}

Years == {2020}

\* Titles the site may list that produce a key one of the attempts looks
\* up (either both keys of an attempt or its condensed key only), and one
\* title unrelated to the request.
Titles(s, y) ==
    LET bases == {s, rm_par(s)} \cup {rm_par(s) \o YearSuffix(n) : n \in {y[i] : i \in 1..Len(y)}}
    IN bases \cup {clean_series(b) : b \in bases} \cup {<<"x">>}

\* /shows.php as served: no show, or one show.
ShowLists(s, y) == {<<>>} \cup {<<[title |-> t, code |-> 1]>> : t \in Titles(s, y)}

DictSet(d, k, v) == [x \in DOMAIN d \cup {k} |-> IF x = k THEN v ELSE d[x]]

EmptyDict == [x \in {} |-> 0]

\* get_show_ids: the loop over the listed shows, two keys per show
RECURSIVE get_show_ids(_, _)
get_show_ids(html_shows, acc) ==
    IF html_shows = <<>> THEN acc
    ELSE LET show_str == Head(html_shows).title
             show_code == Head(html_shows).code
         IN get_show_ids(Tail(html_shows),
                DictSet(DictSet(acc, lower(show_str), show_code),
                        clean_series(show_str), show_code))

\* HTTP status codes the site answers with
Statuses == {200, 503}

GetRaises_Never(status) == FALSE

\* Provider.get: anything but 200 raises ProviderError
GetRaises(status) == status # 200

\* /search.php answers: the suggested shows, in page order
Suggestions == {<<>>, <<7, 8>>}

\* find_show_id on a 200 answer: None, or the first suggestion
FirstSuggestion(suggested_shows) ==
    IF suggested_shows = <<>> THEN None ELSE Some(suggested_shows[1])

\* where query continues after the attempt of the given stage
AfterStage(st) == CASE st = 1 -> "without_year"
                    [] st = 2 -> "without_par"
                    [] OTHER -> "check"

Pending == [status |-> "pending", subtitles |-> <<>>]
Returned(subs) == [status |-> "returned", subtitles |-> subs]
Raised == [status |-> "raised", subtitles |-> <<>>]

\* one entry of the lookup log: an index test or a find_show_id call
Lookup(k, form, res, raised) ==
    [stage |-> stage, kind |-> k, form |-> form, res |-> res, raised |-> raised]

InIndex_Miss(form, d) == FALSE

\* lines 180, 183: `series_fix in show_ids`, `series_clean in show_ids`
InIndex(form, d) == form \in DOMAIN d

IndexGet(d, k) == IF InIndex(k, d) THEN Some(d[k]) ELSE None

QueryInit ==
    /\ pc = "get_show_ids"
    /\ series \in Names
    /\ year \in {None} \cup {Some(y) : y \in Years}
    /\ episode = 2
    /\ languages = {"eng"}
    /\ shows \in ShowLists(series, year)
    /\ show_ids = EmptyDict
    /\ show_id = None
    /\ sub_year = None
    /\ sub_series = None
    /\ series_fix = None
    /\ series_clean = None
    /\ stage = 0
    /\ lookups = <<>>
    /\ requests = <<>>
    /\ find_memo = EmptyDict
    /\ result = Pending
    /\ soup = None

\* line 171: show_ids = self.get_show_ids(), served by the cache region or
\* loaded from /shows.php
GetShowIds ==
    /\ pc = "get_show_ids"
    /\ \/ /\ show_ids' = get_show_ids(shows, EmptyDict)
          /\ pc' = "with_year"
          /\ UNCHANGED <<requests, result>>
       \/ \E status \in Statuses :
            /\ requests' = Append(requests, [url |-> "shows", arg |-> None, status |-> status])
            /\ IF GetRaises(status)
               THEN pc' = "raised" /\ result' = Raised /\ UNCHANGED show_ids
               ELSE /\ show_ids' = get_show_ids(shows, EmptyDict)
                    /\ pc' = "with_year"
                    /\ UNCHANGED result
    /\ UNCHANGED <<soup, series, year, episode, languages, shows, show_id, sub_year, sub_series,
                   series_fix, series_clean, stage, lookups, find_memo>>

YearForm_KeepPar(s, y) == lower(s) \o YearSuffix(y)

\* line 177
YearForm(s, y) == rm_par(lower(s)) \o YearSuffix(y)

\* lines 174-179
WithYear ==
    /\ pc = "with_year"
    /\ IF year # None
       THEN /\ sub_year' = year
            /\ series_fix' = YearForm(series, year[1])
            /\ series_clean' = clean_series(series_fix')
            /\ stage' = 1
            /\ pc' = "cache_fix"
       ELSE /\ pc' = "without_year"
            /\ UNCHANGED <<sub_year, series_fix, series_clean, stage>>
    /\ UNCHANGED <<soup, series, year, episode, languages, shows, show_ids, show_id, sub_series,
                   lookups, requests, find_memo, result>>

RetryWithoutYear_Always(id) == TRUE

\* line 192
RetryWithoutYear(id) == id = None

\* lines 192-196
WithoutYear ==
    /\ pc = "without_year"
    /\ IF RetryWithoutYear(show_id)
       THEN /\ sub_year' = None
            /\ series_fix' = lower(series)
            /\ series_clean' = clean_series(series_fix')
            /\ stage' = 2
            /\ pc' = "cache_fix"
       ELSE /\ pc' = "without_par"
            /\ UNCHANGED <<sub_year, series_fix, series_clean, stage>>
    /\ UNCHANGED <<soup, series, year, episode, languages, shows, show_ids, show_id, sub_series,
                   lookups, requests, find_memo, result>>

GiveUp_Never(fix, s) == FALSE

\* line 211: give up if no (...) in series
GiveUp(fix, s) == fix = lower(s)

\* lines 209-214
WithoutPar ==
    /\ pc = "without_par"
    /\ IF show_id = None
       THEN /\ series_fix' = rm_par(lower(series))
            /\ IF GiveUp(series_fix', series)
               THEN /\ pc' = "done"
                    /\ result' = Returned(<<>>)
                    /\ UNCHANGED <<series_clean, stage>>
               ELSE /\ series_clean' = clean_series(series_fix')
                    /\ stage' = 3
                    /\ pc' = "cache_fix"
                    /\ UNCHANGED result
       ELSE /\ pc' = "check"
            /\ UNCHANGED <<series_fix, series_clean, stage, result>>
    /\ UNCHANGED <<soup, series, year, episode, languages, shows, show_ids, show_id, sub_year,
                   sub_series, lookups, requests, find_memo>>

\* lines 180-182, 197-199, 215-217: if series_fix in show_ids
CacheFix ==
    /\ pc = "cache_fix"
    /\ IF InIndex(series_fix, show_ids)
       THEN /\ show_id' = Some(show_ids[series_fix])
            /\ sub_series' = series_fix
            /\ pc' = AfterStage(stage)
       ELSE /\ pc' = "cache_clean"
            /\ UNCHANGED <<show_id, sub_series>>
    /\ lookups' = Append(lookups, Lookup("index", series_fix, IndexGet(show_ids, series_fix), FALSE))
    /\ UNCHANGED <<soup, series, year, episode, languages, shows, show_ids, sub_year, series_fix,
                   series_clean, stage, requests, find_memo, result>>

\* lines 183-185, 200-202, 218-220: elif series_clean in show_ids
CacheClean ==
    /\ pc = "cache_clean"
    /\ IF InIndex(series_clean, show_ids)
       THEN /\ show_id' = Some(show_ids[series_clean])
            /\ sub_series' = series_clean
            /\ pc' = AfterStage(stage)
       ELSE /\ pc' = "find_fix"
            /\ UNCHANGED <<show_id, sub_series>>
    /\ lookups' = Append(lookups, Lookup("index", series_clean, IndexGet(show_ids, series_clean), FALSE))
    /\ UNCHANGED <<soup, series, year, episode, languages, shows, show_ids, sub_year, series_fix,
                   series_clean, stage, requests, find_memo, result>>

\* find_show_id(form), lines 145-168 behind the cache region of line 144:
\* the region may hand back a value it holds for the same argument;
\* otherwise /search.php is asked, a non-200 answer raises out of query,
\* and the value returned is kept by the region.
\* onNone is where query goes when the call returns None.
FindShowId(form, onNone) ==
    \/ /\ form \in DOMAIN find_memo
       /\ LET id == find_memo[form]
          IN /\ show_id' = id
             /\ lookups' = Append(lookups, Lookup("find", form, id, FALSE))
             /\ pc' = IF id = None THEN onNone ELSE AfterStage(stage)
       /\ sub_series' = form
       /\ UNCHANGED <<requests, find_memo, result>>
    \/ \E status \in Statuses, suggested_shows \in Suggestions :
         /\ requests' = Append(requests, [url |-> "search", arg |-> Some(form), status |-> status])
         /\ IF GetRaises(status)
            THEN /\ pc' = "raised"
                 /\ result' = Raised
                 /\ lookups' = Append(lookups, Lookup("find", form, None, TRUE))
                 /\ UNCHANGED <<show_id, sub_series, find_memo>>
            ELSE LET id == FirstSuggestion(suggested_shows)
                 IN /\ show_id' = id
                    /\ sub_series' = form
                    /\ find_memo' = DictSet(find_memo, form, id)
                    /\ lookups' = Append(lookups, Lookup("find", form, id, FALSE))
                    /\ pc' = IF id = None THEN onNone ELSE AfterStage(stage)
                    /\ UNCHANGED result

\* lines 186-188, 203-205, 221-223: show_id = self.find_show_id(series_fix)
FindFix ==
    /\ pc = "find_fix"
    /\ FindShowId(series_fix, "find_clean")
    /\ UNCHANGED <<soup, series, year, episode, languages, shows, show_ids, sub_year, series_fix,
                   series_clean, stage>>

\* lines 189-191, 206-208, 224-226: show_id = self.find_show_id(series_clean)
FindClean ==
    /\ pc = "find_clean"
    /\ FindShowId(series_clean, AfterStage(stage))
    /\ UNCHANGED <<soup, series, year, episode, languages, shows, show_ids, sub_year, series_fix,
                   series_clean, stage>>

\* ---- the season page

\* babelfish.Language.fromaddic7ed
fromaddic7ed(name) == CASE name = "English" -> "eng"
                        [] name = "French" -> "fra"

\* int() of a cell holding one digit
ParseInt(str) == CHOOSE d \in 0..9 : DigitChar(d) = str[1]

GoodRow == [status |-> "Completed", language |-> Some("English"),
            season |-> Some(<<"1">>), episode |-> Some(<<"2">>), version |-> Some("v1")]

\* Rows of class 'epeven completed' a season page may hold: a complete row
\* for the requested episode and language, and rows that differ from it in
\* one cell.
Rows == {GoodRow,
         [GoodRow EXCEPT !.status = "50.00%"],
         [GoodRow EXCEPT !.language = None],
         [GoodRow EXCEPT !.language = Some("")],
         [GoodRow EXCEPT !.language = Some("French")],
         [GoodRow EXCEPT !.language = Some(""), !.episode = Some(<<"1">>)],
         [GoodRow EXCEPT !.season = None],
         [GoodRow EXCEPT !.episode = None],
         [GoodRow EXCEPT !.episode = Some(<<"1">>)],
         [GoodRow EXCEPT !.version = None]}

Pages == {<<>>} \cup {<<r>> : r \in Rows} \cup {<<r, GoodRow>> : r \in Rows}

KeepRow_IgnoreStatus(row, ep, langs) ==
    /\ row.language # None /\ row.language # Some("")
    /\ row.season # None /\ row.episode # None
    /\ ~(ParseInt(row.episode[1]) # ep \/ fromaddic7ed(row.language[1]) \notin langs)

\* lines 237-253: whether the loop keeps the row
KeepRow(row, ep, langs) ==
    /\ row.status = "Completed"
    /\ row.language # None /\ row.language # Some("")
    /\ row.season # None /\ row.episode # None
    /\ ~(ParseInt(row.episode[1]) # ep \/ fromaddic7ed(row.language[1]) \notin langs)

Addic7edSubtitle_NoYear(row, s_series, s_year) ==
    [language |-> fromaddic7ed(row.language[1]), series |-> s_series,
     season |-> ParseInt(row.season[1]), episode |-> ParseInt(row.episode[1]),
     year |-> None, version |-> row.version]

\* lines 267-270
Addic7edSubtitle(row, s_series, s_year) ==
    [language |-> fromaddic7ed(row.language[1]), series |-> s_series,
     season |-> ParseInt(row.season[1]), episode |-> ParseInt(row.episode[1]),
     year |-> s_year, version |-> row.version]

\* lines 233-271: the loop over the rows
RECURSIVE ParseRows(_, _, _, _, _)
ParseRows(rows, ep, langs, s_series, s_year) ==
    IF rows = <<>> THEN <<>>
    ELSE (IF KeepRow(Head(rows), ep, langs)
          THEN <<Addic7edSubtitle(Head(rows), s_series, s_year)>>
          ELSE <<>>) \o ParseRows(Tail(rows), ep, langs, s_series, s_year)

\* lines 227-228
CheckShowId ==
    /\ pc = "check"
    /\ IF show_id = None
       THEN pc' = "done" /\ result' = Returned(<<>>)
       ELSE pc' = "fetch" /\ UNCHANGED result
    /\ UNCHANGED <<soup, series, year, episode, languages, shows, show_ids, show_id, sub_year,
                   sub_series, series_fix, series_clean, stage, lookups, requests, find_memo>>

\* lines 229-271
FetchSeason ==
    /\ pc = "fetch"
    /\ \E status \in Statuses :
         /\ requests' = Append(requests, [url |-> "season", arg |-> show_id, status |-> status])
         /\ IF GetRaises(status)
            THEN pc' = "raised" /\ result' = Raised /\ UNCHANGED soup
            ELSE /\ pc' = "done"
                 /\ \E page \in Pages :
                      /\ soup' = Some(page)
                      /\ result' = Returned(ParseRows(page, episode, languages, sub_series, sub_year))
    /\ UNCHANGED <<series, year, episode, languages, shows, show_ids, show_id, sub_year,
                   sub_series, series_fix, series_clean, stage, lookups, find_memo>>

\* ------------------------------------------------------ compute_matches

\* hmg (subliminal/subtitle.py): the normalised form two texts are
\* compared in: case and punctuation do not count.
hmg(text) == lower(SelectSeq(text, LAMBDA c : c \notin Punctuation))

\* Python's `needle in hay` on text
Contains(hay, needle) ==
    \E i \in 0..(Len(hay) - Len(needle)) : SubSeq(hay, i + 1, i + Len(needle)) = needle

\* hmg applied to a missing text
HmgRaises(text) == text = None

\* compute_guess_properties_matches / compute_guess_matches
\* (subliminal/subtitle.py): the attributes among attrs that the guess made
\* from the release text shares with the video.
GuessMatches(v, text, attrs, guess) ==
    {a \in attrs \cap guess : text # None /\ v[a] # None}

Ok(set) == [status |-> "returned", set |-> set]
TypeError == [status |-> "raised", set |-> {}]
NotCalled == [status |-> "pending", set |-> {}]

Show == <<"S", "h", "o", "w">>
Pilot == <<"P", "i", "l", "o", "t">>
Group == <<"L", "O", "L">>
P720 == <<"7", "2", "0", "p">>
HDTV == <<"H", "D", "T", "V">>
Release == <<"s", "h", "o", "w", ".", "7", "2", "0", "p", ".", "h", "d", "t", "v", "-", "l", "o", "l">>

Opt(S) == {None} \cup {Some(x) : x \in S}

\* The videos handed to compute_matches.  A Movie has no series, season
\* and episode; the fields are kept at None and never read for it.
Episodes ==
    [type : {"Episode"}, series : Opt({Show}), season : Opt({1}), episode : Opt({2}),
     title : Opt({Pilot}), year : Opt({2020}), release_group : Opt({Group}),
     resolution : Opt({P720}), format : Opt({HDTV}), video_codec : {None}, audio_codec : {None},
     hashes : {EmptyDict}, imdb_id : {None}]

HashDicts == {EmptyDict} \cup {[k \in {"opensubtitles"} |-> h] : h \in Opt({"h1"})}

OSVideos ==
    [type : {"Episode"}, series : Opt({Show}), season : Opt({1}), episode : Opt({2}),
     title : Opt({Pilot}), year : {None}, release_group : {None},
     resolution : {None}, format : Opt({HDTV}), video_codec : {None}, audio_codec : {None},
     hashes : HashDicts, imdb_id : Opt({42})]
    \cup
    [type : {"Movie"}, series : {None}, season : {None}, episode : {None},
     title : Opt({Pilot}), year : Opt({2020}), release_group : {None},
     resolution : {None}, format : Opt({HDTV}), video_codec : {None}, audio_codec : {None},
     hashes : HashDicts, imdb_id : Opt({42})]

\* Addic7edSubtitle objects as query builds them (lines 267-270): series,
\* season and episode are always set, title and version are cell texts that
\* may be missing, year is sub_year.
Addic7edSubtitles ==
    [series : {lower(Show), <<"x">>}, season : {1, 3}, episode : {2},
     title : {Pilot}, year : Opt({2020}), version : Opt({Release, <<"x">>})]

QuotedName == <<"\"", "S", "h", "o", "w", "\"", " ", "P", "i", "l", "o", "t">>

\* OpenSubtitlesSubtitle objects as query builds them (lines 143-159)
OpenSubtitlesSubtitles ==
    [movie_kind : {"episode", "movie", "tv series"}, hash : Opt({"h1"}),
     movie_name : Opt({QuotedName, Pilot}), movie_release_name : Opt({Release}),
     movie_year : Opt({2020}), movie_imdb_id : Opt({42}),
     series_season : Opt({1}), series_episode : {Some(2)}]

GuessableAttrs == {"release_group", "resolution", "format", "video_codec", "audio_codec"}

MatchInit ==
    /\ provider \in {"addic7ed", "opensubtitles"}
    /\ IF provider = "addic7ed"
       THEN video \in Episodes /\ subtitle \in Addic7edSubtitles
       ELSE video \in OSVideos /\ subtitle \in OpenSubtitlesSubtitles
    /\ guessed \in {{}, {"format"}}
    /\ matches = NotCalled

IfSet(cond, a) == IF cond THEN {a} ELSE {}

\* addic7ed.py lines 49-51
A7_YearMatches(sub_y, video_y) == sub_y = video_y

\* Addic7edSubtitle.compute_matches, addic7ed.py lines 35-68
Addic7edMatches(self, v, guess) ==
    Ok(IfSet(v.series # None /\ hmg(v.series[1]) = hmg(self.series), "series")
       \cup IfSet(v.season # None /\ Some(self.season) = v.season, "season")
       \cup IfSet(v.episode # None /\ Some(self.episode) = v.episode, "episode")
       \cup IfSet(v.title # None /\ hmg(v.title[1]) = hmg(self.title), "title")
       \cup IfSet(A7_YearMatches(self.year, v.year), "year")
       \cup IfSet(v.release_group # None /\ self.version # None
                    /\ Contains(lower(self.version[1]), lower(v.release_group[1])), "release_group")
       \cup IfSet(v.resolution # None /\ self.version # None
                    /\ Contains(lower(self.version[1]), lower(v.resolution[1])), "resolution")
       \cup IfSet(v.format # None /\ self.version # None
                    /\ Contains(lower(self.version[1]), lower(v.format[1])), "format")
       \cup GuessMatches(v, self.version, {"resolution"}, guess)
       \cup GuessMatches(v, self.version, {"format"}, guess))

\* series_re of opensubtitles.py line 23 applied to movie_name: the
\* positions k of a quote followed by a blank that can close the name
SeriesReSplits(name) ==
    IF name = <<>> \/ name[1] # "\"" THEN {}
    ELSE {k \in 2..(Len(name) - 1) : name[k] = "\"" /\ name[k + 1] = " "}

SeriesReSplit(name) == CHOOSE k \in SeriesReSplits(name) : \A j \in SeriesReSplits(name) : j <= k

\* the properties of lines 39-45; they raise on a missing name and on a
\* name the expression does not match
SeriesNameRaises(self) == self.movie_name = None \/ SeriesReSplits(self.movie_name[1]) = {}
series_name(self) == SubSeq(self.movie_name[1], 2, SeriesReSplit(self.movie_name[1]) - 1)
series_title(self) ==
    SubSeq(self.movie_name[1], SeriesReSplit(self.movie_name[1]) + 2, Len(self.movie_name[1]))

\* lines 49-51
OS_HashMatches(self, v) ==
    "opensubtitles" \in DOMAIN v.hashes /\ self.hash = v.hashes["opensubtitles"]

\* lines 53-54
OS_ImdbMatches(self, v) == v.imdb_id # None /\ v.imdb_id = self.movie_imdb_id

\* lines 49-54: what is matched before the kind is looked at
OS_BeforeKind(self, v) ==
    IfSet(OS_HashMatches(self, v), "hash") \cup IfSet(OS_ImdbMatches(self, v), "imdb_id")

\* OpenSubtitlesSubtitle.compute_matches, opensubtitles.py lines 47-89
OpenSubtitlesMatches(self, v, guess) ==
    LET first == OS_BeforeKind(self, v)
    IN IF v.type = "Episode" /\ self.movie_kind = "episode"
       THEN IF (v.series # None /\ SeriesNameRaises(self))
               \/ (v.title # None /\ SeriesNameRaises(self))
               \/ self.movie_release_name = None
            THEN TypeError
            ELSE Ok(first
                    \cup IfSet(v.series # None /\ hmg(v.series[1]) = hmg(series_name(self)), "series")
                    \cup IfSet(v.season # None /\ v.season = self.series_season, "season")
                    \cup IfSet(v.episode # None /\ v.episode = self.series_episode, "episode")
                    \cup IfSet(v.title # None /\ hmg(v.title[1]) = hmg(series_title(self)), "title")
                    \cup GuessMatches(v, self.movie_release_name, GuessableAttrs, guess))
       ELSE IF v.type = "Movie" /\ self.movie_kind = "movie"
       THEN IF (v.title # None /\ HmgRaises(self.movie_name)) \/ self.movie_release_name = None
            THEN TypeError
            ELSE Ok(first
                    \cup IfSet(v.title # None /\ hmg(v.title[1]) = hmg(self.movie_name[1]), "title")
                    \cup IfSet(v.year # None /\ v.year = self.movie_year, "year")
                    \cup GuessMatches(v, self.movie_release_name, GuessableAttrs, guess))
       ELSE Ok(first)

Addic7edComputeMatches ==
    /\ provider = "addic7ed"
    /\ matches = NotCalled
    /\ matches' = Addic7edMatches(subtitle, video, guessed)
    /\ UNCHANGED <<provider, video, subtitle, guessed>>

OpenSubtitlesComputeMatches ==
    /\ provider = "opensubtitles"
    /\ matches = NotCalled
    /\ matches' = OpenSubtitlesMatches(subtitle, video, guessed)
    /\ UNCHANGED <<provider, video, subtitle, guessed>>

MatchIdle ==
    /\ provider = "none"
    /\ video = None
    /\ subtitle = None
    /\ guessed = {}
    /\ matches = NotCalled

\* -------------------------------------------------------------- score.py

\* Largest weight the solver looks for.
MaxWeight == 80

\* Eq(lhs, rhs): lhs is a symbol, terms the symbols added up on the right
\* (twice for 2 * symbol) and const the number added to them.
Eq(lhs, terms, const) == [lhs |-> lhs, terms |-> terms, const |-> const]

EpisodeEquations_CodecsSwapped ==
    << Eq("hash", <<"resolution", "format", "video_codec", "audio_codec", "release_group",
                    "series", "year", "season">>, 0),
       Eq("series", <<"resolution", "video_codec", "audio_codec", "release_group", "format">>, 1),
       Eq("series", <<"year">>, 0),
       Eq("tvdb_id", <<"series", "year">>, 0),
       Eq("season", <<"series">>, 0),
       Eq("imdb_id", <<"series", "season", "episode", "year">>, 0),
       Eq("format", <<>>, 4),
       Eq("resolution", <<>>, 4),
       Eq("video_codec", <<>>, 2),
       Eq("title", <<"season", "episode">>, 0),
       Eq("season", <<"episode">>, 0),
       Eq("release_group", <<>>, 8),
       Eq("audio_codec", <<>>, 1) >>

EpisodeEquations_NoAudioCodec ==
    << Eq("hash", <<"resolution", "format", "video_codec", "audio_codec", "release_group",
                    "series", "year", "season">>, 0),
       Eq("series", <<"resolution", "video_codec", "audio_codec", "release_group", "format">>, 1),
       Eq("series", <<"year">>, 0),
       Eq("tvdb_id", <<"series", "year">>, 0),
       Eq("season", <<"series">>, 0),
       Eq("imdb_id", <<"series", "season", "episode", "year">>, 0),
       Eq("format", <<>>, 4),
       Eq("resolution", <<>>, 4),
       Eq("video_codec", <<>>, 1),
       Eq("title", <<"season", "episode">>, 0),
       Eq("season", <<"episode">>, 0),
       Eq("release_group", <<>>, 8) >>

\* get_episode_equations, score.py lines 36-50
EpisodeEquations ==
    << Eq("hash", <<"resolution", "format", "video_codec", "audio_codec", "release_group",
                    "series", "year", "season">>, 0),
       Eq("series", <<"resolution", "video_codec", "audio_codec", "release_group", "format">>, 1),
       Eq("series", <<"year">>, 0),
       Eq("tvdb_id", <<"series", "year">>, 0),
       Eq("season", <<"series">>, 0),
       Eq("imdb_id", <<"series", "season", "episode", "year">>, 0),
       Eq("format", <<>>, 4),
       Eq("resolution", <<>>, 4),
       Eq("video_codec", <<>>, 1),
       Eq("title", <<"season", "episode">>, 0),
       Eq("season", <<"episode">>, 0),
       Eq("release_group", <<>>, 8),
       Eq("audio_codec", <<>>, 2) >>

MovieEquations_VideoIsAudio ==
    << Eq("hash", <<"resolution", "format", "video_codec", "audio_codec", "title", "year",
                    "release_group">>, 0),
       Eq("imdb_id", <<"hash">>, 0),
       Eq("resolution", <<"video_codec">>, 0),
       Eq("video_codec", <<"audio_codec">>, 0),
       Eq("format", <<"video_codec", "audio_codec">>, 0),
       Eq("title", <<"resolution", "video_codec", "audio_codec", "year">>, 1),
       Eq("video_codec", <<"audio_codec">>, 0),
       Eq("release_group", <<"resolution", "video_codec", "audio_codec">>, 1),
       Eq("year", <<"release_group">>, 1),
       Eq("audio_codec", <<>>, 1) >>

MovieEquations_AudioIsZero ==
    << Eq("hash", <<"resolution", "format", "video_codec", "audio_codec", "title", "year",
                    "release_group">>, 0),
       Eq("imdb_id", <<"hash">>, 0),
       Eq("resolution", <<"video_codec">>, 0),
       Eq("video_codec", <<"audio_codec", "audio_codec">>, 0),
       Eq("format", <<"video_codec", "audio_codec">>, 0),
       Eq("title", <<"resolution", "video_codec", "audio_codec", "year">>, 1),
       Eq("video_codec", <<"audio_codec", "audio_codec">>, 0),
       Eq("release_group", <<"resolution", "video_codec", "audio_codec">>, 1),
       Eq("year", <<"release_group">>, 1),
       Eq("audio_codec", <<>>, 0) >>

\* get_movie_equations, score.py lines 72-83
MovieEquations ==
    << Eq("hash", <<"resolution", "format", "video_codec", "audio_codec", "title", "year",
                    "release_group">>, 0),
       Eq("imdb_id", <<"hash">>, 0),
       Eq("resolution", <<"video_codec">>, 0),
       Eq("video_codec", <<"audio_codec", "audio_codec">>, 0),
       Eq("format", <<"video_codec", "audio_codec">>, 0),
       Eq("title", <<"resolution", "video_codec", "audio_codec", "year">>, 1),
       Eq("video_codec", <<"audio_codec", "audio_codec">>, 0),
       Eq("release_group", <<"resolution", "video_codec", "audio_codec">>, 1),
       Eq("year", <<"release_group">>, 1),
       Eq("audio_codec", <<>>, 1) >>

\* the symbol lists handed to solve, score.py lines 87-90
EpisodeSymbols == {"release_group", "resolution", "format", "video_codec", "audio_codec", "imdb_id",
                   "hash", "series", "tvdb_id", "season", "episode", "title", "year"}
MovieSymbols == {"release_group", "resolution", "format", "video_codec", "audio_codec", "imdb_id",
                 "hash", "title", "year"}

Equations(k) == IF k = "episode" THEN EpisodeEquations ELSE MovieEquations
Symbols(k) == IF k = "episode" THEN EpisodeSymbols ELSE MovieSymbols

EqSymbols(eq) == {eq.lhs} \cup {eq.terms[i] : i \in 1..Len(eq.terms)}

RECURSIVE SumTerms(_, _)
SumTerms(terms, w) == IF terms = <<>> THEN 0 ELSE w[Head(terms)] + SumTerms(Tail(terms), w)

\* the equality holds under w, which gives a value to each of its symbols
Holds(eq, w) == w[eq.lhs] = SumTerms(eq.terms, w) + eq.const

\* solve (sympy) on these systems, by substitution: an equation all of
\* whose symbols but one have a value determines that one.
Determines(eq, sym, w) ==
    /\ sym \notin DOMAIN w
    /\ sym \in EqSymbols(eq)
    /\ EqSymbols(eq) \ {sym} \subseteq DOMAIN w

ValuesFor(eq, sym, w) == {v \in 0..MaxWeight : Holds(eq, DictSet(w, sym, v))}

\* computeScore: the sum of the weights of the attributes of a match set
RECURSIVE computeScore(_, _)
computeScore(set, w) ==
    IF set = {} THEN 0
    ELSE LET a == CHOOSE x \in set : TRUE
         IN w[a] + computeScore(set \ {a}, w)

ScoreInit ==
    /\ kind \in {"episode", "movie"}
    /\ known = {}
    /\ weight = EmptyDict
    /\ matchset = {}
    /\ last = None

\* one substitution step of solve
Determine ==
    /\ known # Symbols(kind)
    /\ \E i \in 1..Len(Equations(kind)), sym \in Symbols(kind) \ known :
         /\ Determines(Equations(kind)[i], sym, weight)
         /\ \E v \in ValuesFor(Equations(kind)[i], sym, weight) :
              /\ weight' = DictSet(weight, sym, v)
              /\ known' = known \cup {sym}
    /\ UNCHANGED <<kind, matchset, last>>

Solved == known = Symbols(kind)

\* a match set is scored with the weights, then one attribute is added
AddMatch ==
    /\ Solved
    /\ last = None
    /\ \E set \in SUBSET Symbols(kind), a \in Symbols(kind) :
         /\ last' = Some([attr |-> a, fresh |-> a \notin set,
                          before |-> computeScore(set, weight)])
         /\ matchset' = set \cup {a}
    /\ UNCHANGED <<kind, known, weight>>

ScoreIdle ==
    /\ kind = "none"
    /\ known = {}
    /\ weight = EmptyDict
    /\ matchset = {}
    /\ last = None

\* ------------------------------------------- OpenSubtitlesProvider.query

\* babelfish: Language.opensubtitles and Language.fromopensubtitles
opensubtitles(l) == CASE l = "eng" -> "eng" [] l = "fra" -> "fre"
fromopensubtitles(code) == CASE code = "eng" -> "eng" [] code = "fre" -> "fra"

\* One element of `searches`. A key the dict does not hold is None here;
\* `what` names the branch that appended the element.
Search(what, moviehash, moviebytesize, imdbid, q, s, e) ==
    [what |-> what, moviehash |-> moviehash, moviebytesize |-> moviebytesize,
     imdbid |-> imdbid, query |-> q, season |-> s, episode |-> e,
     sublanguageid |-> None]

\* line 112
HashSearchBuilt(hash, size) == hash # None /\ size # None

\* line 114
ImdbSearchBuilt(imdb_id) == imdb_id # None

\* line 116
EpisodeSearchBuilt(q, s, e) == q # None /\ s # None /\ e # None

QuerySearchBuilt_Never(q, s, e) == FALSE

\* line 118
QuerySearchBuilt(q, s, e) == ~EpisodeSearchBuilt(q, s, e) /\ q # None

\* lines 111-119
BuildSearches(a) ==
    (IF HashSearchBuilt(a.hash, a.size)
     THEN <<Search("hash", a.hash, Some(FormatInt(a.size[1])), None, None, None, None)>>
     ELSE <<>>)
    \o (IF ImdbSearchBuilt(a.imdb_id)
        THEN <<Search("imdbid", None, None, a.imdb_id, None, None, None)>>
        ELSE <<>>)
    \o (IF EpisodeSearchBuilt(a.query, a.season, a.episode)
        THEN <<Search("query", None, None, None, Some(rm_par(a.query[1])), a.season, a.episode)>>
        ELSE IF QuerySearchBuilt(a.query, a.season, a.episode)
        THEN <<Search("query", None, None, None, a.query, None, None)>>
        ELSE <<>>)

\* lines 122-123: the codes are joined in the iteration order of a set, so
\* the joined text is kept as the set of its codes
TagLanguages(ss, langs) ==
    [i \in 1..Len(ss) |-> [ss[i] EXCEPT !.sublanguageid = Some({opensubtitles(l) : l \in langs})]]

\* checked(), lines 224-241: every status code but 200 raises
CheckedRaises(status_code) == status_code # 200

OSStatuses == {200, 503}

\* an entry of response['data'], with the cells query reads
OSRsp(lang, season_cell) ==
    [SubLanguageID |-> lang, IDSubtitleFile |-> "f1", SeriesSeason |-> season_cell]

OSData == {<<>>, <<OSRsp("eng", None)>>, <<OSRsp("fre", Some(<<"1">>)), OSRsp("eng", None)>>}

\* lines 144-158
OpenSubtitlesSubtitle(rsp) ==
    [language |-> fromopensubtitles(rsp.SubLanguageID), id |-> rsp.IDSubtitleFile,
     series_season |-> IF rsp.SeriesSeason # None
                       THEN Some(ParseInt(rsp.SeriesSeason[1])) ELSE None]

OSPending == [status |-> "pending", subtitles |-> <<>>]
OSReturned(subs) == [status |-> "returned", subtitles |-> subs]
OSRaised(what) == [status |-> what, subtitles |-> <<>>]

OSQueryTexts == {<<"S">>, <<"S", " ", "(", "U", "S", ")">>}

OSArgs == [hash : Opt({"h1"}), size : Opt({0, 12}), imdb_id : Opt({5}),
           query : Opt(OSQueryTexts), season : Opt({1}), episode : Opt({2})]

OSInit ==
    /\ os_pc = "build"
    /\ os_args \in OSArgs
    /\ os_languages \in {{"eng"}, {"eng", "fra"}}
    /\ searches = <<>>
    /\ os_requests = <<>>
    /\ os_result = OSPending

\* lines 111-123
OSBuild ==
    /\ os_pc = "build"
    /\ LET built == BuildSearches(os_args)
       IN IF built = <<>>
          THEN /\ os_pc' = "raised"
               /\ os_result' = OSRaised("ValueError")
               /\ searches' = built
          ELSE /\ os_pc' = "search"
               /\ searches' = TagLanguages(built, os_languages)
               /\ UNCHANGED os_result
    /\ UNCHANGED <<os_args, os_languages, os_requests>>

\* lines 125-160
OSSearchSubtitles ==
    /\ os_pc = "search"
    /\ \E status_code \in OSStatuses :
         /\ os_requests' = Append(os_requests, [searches |-> searches, status |-> status_code])
         /\ IF CheckedRaises(status_code)
            THEN os_pc' = "raised" /\ os_result' = OSRaised("OpenSubtitlesError")
            ELSE /\ os_pc' = "done"
                 /\ \E data \in OSData :
                      os_result' = OSReturned([i \in 1..Len(data) |-> OpenSubtitlesSubtitle(data[i])])
    /\ UNCHANGED <<os_args, os_languages, searches>>

OSIdle ==
    /\ os_pc = "idle"
    /\ os_args = None
    /\ os_languages = {}
    /\ searches = <<>>
    /\ os_requests = <<>>
    /\ os_result = OSPending

Init == QueryInit /\ MatchIdle /\ ScoreIdle /\ OSIdle

Next ==
    \/ GetShowIds /\ UNCHANGED <<mvars, svars, ovars>>
    \/ WithYear /\ UNCHANGED <<mvars, svars, ovars>>
    \/ WithoutYear /\ UNCHANGED <<mvars, svars, ovars>>
    \/ WithoutPar /\ UNCHANGED <<mvars, svars, ovars>>
    \/ CacheFix /\ UNCHANGED <<mvars, svars, ovars>>
    \/ CacheClean /\ UNCHANGED <<mvars, svars, ovars>>
    \/ FindFix /\ UNCHANGED <<mvars, svars, ovars>>
    \/ FindClean /\ UNCHANGED <<mvars, svars, ovars>>
    \/ CheckShowId /\ UNCHANGED <<mvars, svars, ovars>>
    \/ FetchSeason /\ UNCHANGED <<mvars, svars, ovars>>

Spec == Init /\ [][Next]_vars

QueryIdle ==
    /\ pc = "idle"
    /\ series = None
    /\ year = None
    /\ episode = 0
    /\ languages = {}
    /\ shows = <<>>
    /\ show_ids = EmptyDict
    /\ show_id = None
    /\ sub_year = None
    /\ sub_series = None
    /\ series_fix = None
    /\ series_clean = None
    /\ stage = 0
    /\ lookups = <<>>
    /\ requests = <<>>
    /\ find_memo = EmptyDict
    /\ result = Pending
    /\ soup = None

InitMatch == QueryIdle /\ MatchInit /\ ScoreIdle /\ OSIdle

NextMatch ==
    \/ Addic7edComputeMatches /\ UNCHANGED <<qvars, svars, ovars>>
    \/ OpenSubtitlesComputeMatches /\ UNCHANGED <<qvars, svars, ovars>>

SpecMatch == InitMatch /\ [][NextMatch]_vars

InitScore == QueryIdle /\ MatchIdle /\ ScoreInit /\ OSIdle

NextScore ==
    \/ Determine /\ UNCHANGED <<qvars, mvars, ovars>>
    \/ AddMatch /\ UNCHANGED <<qvars, mvars, ovars>>

SpecScore == InitScore /\ [][NextScore]_vars

InitSearch == QueryIdle /\ MatchIdle /\ ScoreIdle /\ OSInit

NextSearch ==
    \/ OSBuild /\ UNCHANGED <<qvars, mvars, svars>>
    \/ OSSearchSubtitles /\ UNCHANGED <<qvars, mvars, svars>>

SpecSearch == InitSearch /\ [][NextSearch]_vars

\* ------------------------------------------------------ claims on query

\* the lookups of one attempt, in the order they were made
StageLog(st) == SelectSeq(lookups, LAMBDA l : l.stage = st)

Terminated == pc \in {"done", "raised"}

\* the attempt of stage st is over
StageOver(st) == Terminated \/ stage > st \/ (stage = st /\ pc \in {"without_year", "without_par", "check", "fetch"})

\* every one of the four lookups of the attempt was made and none gave an id
FailedEntirely(st) ==
    LET L == StageLog(st)
    IN Len(L) = 4 /\ \A i \in 1..4 : L[i].res = None /\ ~L[i].raised

LookupKinds == <<"index", "index", "find", "find">>

\* C1: within one attempt the lookups are, in this order, index with the
\* raw form, index with the condensed form, find_show_id with the raw
\* form, find_show_id with the condensed form; the attempt stops at the
\* first lookup that gives a show id and not before; no find_show_id call
\* is made in an attempt one of whose forms is a key of the index.
C1_LookupOrder ==
    \A st \in 1..3 :
        LET L == StageLog(st)
            condensed == clean_series(L[1].form)
        IN /\ Len(L) <= 4
           /\ \A i \in 1..Len(L) :
                /\ L[i].kind = LookupKinds[i]
                /\ L[i].form = IF i \in {1, 3} THEN L[1].form ELSE condensed
                /\ i < Len(L) => L[i].res = None /\ ~L[i].raised
                /\ L[i].kind = "find" =>
                      /\ L[1].form \notin DOMAIN show_ids
                      /\ condensed \notin DOMAIN show_ids
           /\ (L # <<>> /\ StageOver(st)) =>
                \/ Len(L) = 4
                \/ L[Len(L)].res # None
                \/ L[Len(L)].raised
           /\ \A i \in 1..(Len(lookups) - 1) : lookups[i].stage <= lookups[i + 1].stage

\* an attempt went through all four lookups and the last one gave the id
C1_Witness ==
    /\ pc = "done"
    /\ Len(StageLog(2)) = 4
    /\ StageLog(2)[4].res # None
    /\ StageLog(2)[4].form # StageLog(2)[3].form

\* C2: with a year supplied, the lookups without the year are made exactly
\* when all four lookups of the attempt with the year gave no show id.
C2_UnqualifiedIffYearFailed ==
    year # None =>
        /\ StageLog(2) # <<>> => FailedEntirely(1)
        /\ (FailedEntirely(1) /\ StageOver(2)) => StageLog(2) # <<>>
        /\ (\E i \in 1..Len(lookups) : lookups[i].stage = 1 /\ lookups[i].res # None) =>
              \A i \in 1..Len(lookups) : lookups[i].stage = 1

C2_Witness ==
    /\ year # None
    /\ pc = "done"
    /\ FailedEntirely(1)
    /\ StageLog(2) # <<>>
    /\ show_id # None

\* the name holds a parenthesized qualifier
HasQualifier(s) == \E i, j \in 1..Len(s) : i < j /\ s[i] = "(" /\ s[j] = ")"

\* the part of a qualified name in front of the qualifier and its blanks
BeforeQualifier(s) ==
    LET open == CHOOSE i \in 1..Len(s) : s[i] = "(" /\ \A j \in 1..(i - 1) : s[j] # "("
    IN RStrip(SubSeq(s, 1, open - 1))

SeasonRequests == SelectSeq(requests, LAMBDA r : r.url = "season")

\* C3: once the attempts with and without the year have failed, a name with
\* a parenthesized qualifier gets exactly one more attempt, on the name
\* with the qualifier stripped; a name without one ends the query with an
\* empty list, no further lookup and no season page request.  Whenever the
\* lookups end without a show id the query returns the empty list; it
\* raises only when a request was answered with a status other than 200.
C3_ThirdAttemptOrEmpty ==
    /\ (FailedEntirely(2) /\ HasQualifier(series) /\ StageOver(3)) =>
          /\ StageLog(3) # <<>>
          /\ Len(StageLog(3)) <= 4
          /\ StageLog(3)[1].form = lower(BeforeQualifier(series))
          /\ \A i \in 1..Len(lookups) : lookups[i].stage <= 3
    /\ (FailedEntirely(2) /\ ~HasQualifier(series)) =>
          /\ pc \in {"without_par", "done"}
          /\ StageLog(3) = <<>>
          /\ SeasonRequests = <<>>
          /\ pc = "done" => result = Returned(<<>>)
    /\ (pc = "done" /\ show_id = None) => (result = Returned(<<>>) /\ SeasonRequests = <<>>)
    /\ result.status = "raised" => \E i \in 1..Len(requests) : requests[i].status # 200

C3_Witness ==
    /\ pc = "done"
    /\ HasQualifier(series)
    /\ FailedEntirely(2)
    /\ FailedEntirely(3)
    /\ result = Returned(<<>>)

\* C4 as claimed: with a year, the first form looked up is the lower-cased
\* name unchanged followed by " (<year>)"; "Show Name (US)" with 2020 is
\* looked up first as "show name (us) (2020)".
C4_Claimed_QualifierKept ==
    (year # None /\ lookups # <<>>) =>
        /\ lookups[1].form = lower(series) \o YearSuffix(year[1])
        /\ (series = ShowNameUS /\ year = Some(2020)) =>
              lookups[1].form = <<"s", "h", "o", "w", " ", "n", "a", "m", "e", " ", "(", "u", "s", ")",
                                  " ", "(", "2", "0", "2", "0", ")">>

\* C4 amended: with a year, the first form looked up is the lower-cased
\* name with its parenthesized qualifier removed, followed by " (<year>)";
\* "Show Name (US)" with 2020 is looked up first as "show name (2020)".
C4_YearFormDropsQualifier ==
    (year # None /\ lookups # <<>>) =>
        /\ lookups[1].kind = "index"
        /\ lookups[1].stage = 1
        /\ ~HasQualifier(series) => lookups[1].form = lower(series) \o YearSuffix(year[1])
        /\ HasQualifier(series) =>
              lookups[1].form = lower(BeforeQualifier(series))
                                  \o YearSuffix(year[1])
        /\ (series = ShowNameUS /\ year = Some(2020)) =>
              lookups[1].form = <<"s", "h", "o", "w", " ", "n", "a", "m", "e",
                                  " ", "(", "2", "0", "2", "0", ")">>

C4_Witness ==
    /\ series = ShowNameUS
    /\ year = Some(2020)
    /\ lookups # <<>>
    /\ lookups[1].res # None

\* -------------------------------------------- claims on compute_matches

\* the candidate's reported kind agrees with the video's kind
KindAgrees(self, v) ==
    \/ v.type = "Episode" /\ self.movie_kind = "episode"
    \/ v.type = "Movie" /\ self.movie_kind = "movie"

\* C5: OpenSubtitlesSubtitle.compute_matches returns the empty set whenever
\* the candidate's kind does not agree with the video's kind, whatever the
\* hash and imdb_id values of the two sides.
C5_Claimed_MismatchGivesEmpty ==
    (provider = "opensubtitles" /\ matches # NotCalled /\ ~KindAgrees(subtitle, video)) =>
        matches = Ok({})

\* the value the video holds for an attribute
VideoSide(attr) ==
    IF attr = "hash"
    THEN (IF "opensubtitles" \in DOMAIN video.hashes THEN video.hashes["opensubtitles"] ELSE None)
    ELSE video[attr]

\* the value the candidate holds for an attribute: the field compared, or
\* the text the attribute is looked for in
CandidateSide(attr) ==
    IF provider = "addic7ed"
    THEN CASE attr \in {"series", "season", "episode", "title"} -> Some(subtitle[attr])
           [] attr = "year" -> subtitle.year
           [] OTHER -> subtitle.version
    ELSE CASE attr = "hash" -> subtitle.hash
           [] attr = "imdb_id" -> subtitle.movie_imdb_id
           [] attr \in {"series", "title"} -> subtitle.movie_name
           [] attr = "season" -> subtitle.series_season
           [] attr = "episode" -> subtitle.series_episode
           [] attr = "year" -> subtitle.movie_year
           [] OTHER -> subtitle.movie_release_name

\* C6: in both matchers an attribute whose value is missing on the video
\* side, on the candidate side or on both is never in the match set, and
\* the call never ends in an error.
C6_Claimed_MissingNeverMatches ==
    matches # NotCalled =>
        /\ matches.status = "returned"
        /\ \A attr \in matches.set : VideoSide(attr) # None /\ CandidateSide(attr) # None

\* ------------------------------------------------------ claims on score.py

W(sym) == weight[sym]

\* C7 as claimed: the episode weights are ordered hash > series + year +
\* season > title > release_group > format = resolution > episode = season
\* > video_codec > audio_codec.
C7_Claimed_EpisodeOrdering ==
    (kind = "episode" /\ Solved) =>
        /\ W("hash") > W("series") + W("year") + W("season")
        /\ W("series") + W("year") + W("season") > W("title")
        /\ W("title") > W("release_group")
        /\ W("release_group") > W("format")
        /\ W("format") = W("resolution")
        /\ W("resolution") > W("episode")
        /\ W("episode") = W("season")
        /\ W("season") > W("video_codec")
        /\ W("video_codec") > W("audio_codec")

\* C7 amended: the episode weights are ordered hash > series + year +
\* season > title > episode = season > release_group > format = resolution
\* > audio_codec > video_codec.
C7_EpisodeOrdering ==
    (kind = "episode" /\ Solved) =>
        /\ W("hash") > W("series") + W("year") + W("season")
        /\ W("series") + W("year") + W("season") > W("title")
        /\ W("title") > W("episode")
        /\ W("episode") = W("season")
        /\ W("season") > W("release_group")
        /\ W("release_group") > W("format")
        /\ W("format") = W("resolution")
        /\ W("resolution") > W("audio_codec")
        /\ W("audio_codec") > W("video_codec")

C7_Witness == kind = "episode" /\ Solved /\ W("hash") = 79 /\ W("title") = 40

\* C8 as claimed: the movie weights have hash = imdb_id and audio_codec <
\* video_codec < resolution.
C8_Claimed_MovieOrdering ==
    (kind = "movie" /\ Solved) =>
        /\ W("hash") = W("imdb_id")
        /\ W("audio_codec") < W("video_codec")
        /\ W("video_codec") < W("resolution")

\* C8 amended: the movie weights have hash = imdb_id, audio_codec <
\* video_codec and video_codec = resolution.
C8_MovieOrdering ==
    (kind = "movie" /\ Solved) =>
        /\ W("hash") = W("imdb_id")
        /\ W("audio_codec") < W("video_codec")
        /\ W("video_codec") = W("resolution")

C8_Witness == kind = "movie" /\ Solved /\ W("hash") = 34 /\ W("resolution") = 2

EpisodeSolution ==
    [s \in EpisodeSymbols |->
        CASE s = "hash" -> 79
          [] s = "imdb_id" -> 80
          [] s \in {"tvdb_id", "title"} -> 40
          [] s \in {"series", "year", "season", "episode"} -> 20
          [] s = "release_group" -> 8
          [] s \in {"format", "resolution"} -> 4
          [] s = "audio_codec" -> 2
          [] s = "video_codec" -> 1]

MovieSolution ==
    [s \in MovieSymbols |->
        CASE s \in {"hash", "imdb_id"} -> 34
          [] s = "title" -> 13
          [] s = "year" -> 7
          [] s = "release_group" -> 6
          [] s = "format" -> 3
          [] s \in {"resolution", "video_codec"} -> 2
          [] s = "audio_codec" -> 1]

\* C9: each of the two systems (13 episode equations over 13 symbols, the
\* movie equations over 9 symbols) has exactly one assignment satisfying
\* all its equations, and every weight of it is strictly positive: every
\* value is forced by the values before it, no equation is contradicted,
\* the substitution never stops before every symbol has its value, and it
\* always ends in the same assignment.
C9_UniquePositiveSolution ==
    LET eqs == Equations(kind)
    IN /\ Len(EpisodeEquations) = 13 /\ Cardinality(EpisodeSymbols) = 13
       /\ Cardinality(MovieSymbols) = 9
       /\ \A i \in 1..Len(eqs) :
            /\ EqSymbols(eqs[i]) \subseteq Symbols(kind)
            /\ EqSymbols(eqs[i]) \subseteq DOMAIN weight => Holds(eqs[i], weight)
            /\ \A sym \in Symbols(kind) \ known :
                 Determines(eqs[i], sym, weight) => Cardinality(ValuesFor(eqs[i], sym, weight)) = 1
       /\ ~Solved => \E i \in 1..Len(eqs), sym \in Symbols(kind) : Determines(eqs[i], sym, weight)
       /\ \A s \in DOMAIN weight : weight[s] > 0
       /\ Solved => weight = (IF kind = "episode" THEN EpisodeSolution ELSE MovieSolution)

C9_Witness ==
    /\ Solved
    /\ kind = "movie"
    /\ last = None
    /\ \A i \in 1..Len(MovieEquations) : Holds(MovieEquations[i], weight)

\* C10: with the solved weights, adding an attribute of the vocabulary to a
\* match set never lowers the score, and raises it when the attribute was
\* not in the set.
C10_ScoreMonotonic ==
    last # None =>
        /\ computeScore(matchset, weight) >= last[1].before
        /\ last[1].fresh => computeScore(matchset, weight) > last[1].before
        /\ ~last[1].fresh => computeScore(matchset, weight) = last[1].before

C10_Witness ==
    /\ last # None
    /\ last[1].fresh
    /\ last[1].attr = "audio_codec"
    /\ Cardinality(matchset) > 2
    /\ computeScore(matchset, weight) = last[1].before + 1

\* --------------------------------------- claims on query, continued

\* C12: a request of query that is answered with a status other than 200
\* (the /shows.php load, a /search.php lookup or the season page) is the
\* last thing query does: it is the last request, query has raised and
\* holds no list, a failed show search is the last entry of the lookup log
\* (no later form, no later attempt), and a query that returned a list saw
\* status 200 on every request.
C12_TransportFailurePropagates ==
    /\ \A k \in 1..Len(requests) :
          requests[k].status # 200 =>
              /\ k = Len(requests)
              /\ pc = "raised"
              /\ result = Raised
              /\ requests[k].url = "shows" => lookups = <<>>
              /\ requests[k].url = "search" =>
                    /\ lookups # <<>>
                    /\ lookups[Len(lookups)].raised
                    /\ lookups[Len(lookups)].kind = "find"
                    /\ Some(lookups[Len(lookups)].form) = requests[k].arg
                    /\ lookups[Len(lookups)].stage = stage
              /\ requests[k].url = "season" => show_id # None
    /\ \A i \in 1..Len(lookups) : lookups[i].raised => i = Len(lookups) /\ pc = "raised"
    /\ result.status = "returned" => \A k \in 1..Len(requests) : requests[k].status = 200
    /\ pc = "raised" => requests # <<>> /\ requests[Len(requests)].status # 200

\* the first remote search of the year attempt failed at transport level
\* while two fallbacks were still ahead
C12_Witness ==
    /\ pc = "raised"
    /\ stage = 1
    /\ requests # <<>>
    /\ requests[Len(requests)].url = "search"
    /\ requests[Len(requests)].status = 503
    /\ HasQualifier(series)

\* the claim's conditions on a row of the season page
Qualifies(row) ==
    /\ row.status = "Completed"
    /\ row.language \notin {None, Some("")}
    /\ row.season # None
    /\ row.episode # None
    /\ fromaddic7ed(row.language[1]) \in languages
    /\ ParseInt(row.episode[1]) = episode

\* the rows of the fetched page that meet the conditions, in page order
QualifyingRows == SelectSeq(soup[1], Qualifies)

\* C13: the candidates query returns are, one for one and in page order,
\* the rows of the season page whose status is 'Completed', whose language
\* is non-empty and requested, whose season and episode cells are present
\* and whose episode is the requested one; so no candidate comes from any
\* other row, and none from a row with an empty language.
C13_OnlyQualifyingRows ==
    (pc = "done" /\ soup # None) =>
        /\ result.status = "returned"
        /\ Len(result.subtitles) = Len(QualifyingRows)
        /\ \A i \in 1..Len(result.subtitles) :
              /\ result.subtitles[i].language = fromaddic7ed(QualifyingRows[i].language[1])
              /\ result.subtitles[i].language \in languages
              /\ result.subtitles[i].episode = episode
              /\ result.subtitles[i].season = ParseInt(QualifyingRows[i].season[1])
              /\ result.subtitles[i].version = QualifyingRows[i].version
        /\ (\E j \in 1..Len(soup[1]) : soup[1][j].language \in {None, Some("")})
              => Len(result.subtitles) < Len(soup[1])

\* the page held the row season "1", episode "2", empty language, and a
\* complete row: only the second became a candidate
C13_Witness ==
    /\ pc = "done"
    /\ soup = Some(<<[GoodRow EXCEPT !.language = Some("")], GoodRow>>)
    /\ Len(result.subtitles) = 1

\* the find_show_id calls of the run, in order
FindCalls == SelectSeq(lookups, LAMBDA l : l.kind = "find")

\* C14, as claimed: no two find_show_id calls of one run carry the same
\* name form, so a call that gave no id is followed by a call with another
\* form or by none, also when the raw form is its own condensed form.
C14_Claimed_NoRepeatedSearch ==
    \A i, j \in 1..Len(FindCalls) :
        i < j => FindCalls[i].form # FindCalls[j].form

\* the same at the level of the /search.php requests that left the
\* process, where the cache region may answer the second call
C14_Claimed_NoRepeatedRequest ==
    \A i, j \in 1..Len(requests) :
        (i < j /\ requests[i].url = "search" /\ requests[j].url = "search")
            => requests[i].arg # requests[j].arg

\* the lookup that gave the show id of a run that fetched a season page
Resolving == lookups[Len(lookups)]

\* years a video may be known to have: the requested one and another
VideoYears == Years \cup {y - 1 : y \in Years}

\* C15: when query returns the candidates of a season page, the lookup
\* that gave the show id is the last of the log; every candidate carries
\* the requested year if that lookup belongs to the year-qualified attempt
\* and None otherwise (the unqualified attempt, the qualifier-stripped
\* attempt, or no year requested); so the year test of compute_matches
\* succeeds against a video with a known year only for a candidate that the
\* year-qualified attempt resolved, and only for the requested year.
C15_YearOnlyFromYearAttempt ==
    (pc = "done" /\ soup # None) =>
        /\ lookups # <<>>
        /\ Resolving.res # None
        /\ Resolving.res = show_id
        /\ Resolving.stage = 1 => year # None
        /\ year = None => Resolving.stage = 2 \/ Resolving.stage = 3
        /\ \A i \in 1..Len(result.subtitles) :
              /\ result.subtitles[i].year = IF Resolving.stage = 1 THEN year ELSE None
              /\ \A vy \in VideoYears :
                    A7_YearMatches(result.subtitles[i].year, Some(vy))
                        => Resolving.stage = 1 /\ year = Some(vy)

\* a year was requested, the year-qualified attempt found nothing, the
\* attempt without the year resolved the show: the candidate has no year
C15_Witness ==
    /\ pc = "done"
    /\ year # None
    /\ soup # None
    /\ Resolving.stage = 2
    /\ result.subtitles # <<>>
    /\ result.subtitles[1].year = None

\* the year-qualified attempt resolved the show: the candidate has the year
C15_WitnessYear ==
    /\ pc = "done"
    /\ soup # None
    /\ Resolving.stage = 1
    /\ result.subtitles # <<>>
    /\ result.subtitles[1].year = year
    /\ A7_YearMatches(result.subtitles[1].year, year)

\* ------------------------------- claims on OpenSubtitlesProvider.query

\* the branches that appended the elements of `searches`, in order
SearchKinds == [i \in 1..Len(searches) |-> searches[i].what]

\* the searches the given arguments allow, most precise first
AllowedKinds(a) ==
    (IF a.hash # None /\ a.size # None THEN <<"hash">> ELSE <<>>)
    \o (IF a.imdb_id # None THEN <<"imdbid">> ELSE <<>>)
    \o (IF a.query # None THEN <<"query">> ELSE <<>>)

\* C11: once query has assembled its searches they are, in this order, the
\* content-hash search (present exactly when hash and size are both given),
\* the imdb-id search (exactly when imdb_id is given) and the free-text
\* search (exactly when query is given), the last one carrying season and
\* episode exactly when both are given; a SearchSubtitles request always
\* carries at least one search, and when none can be built query has raised
\* ValueError and no request was sent.
C11_SearchOrder ==
    os_pc \in {"search", "done", "raised"} =>
        /\ SearchKinds = AllowedKinds(os_args)
        /\ \A i \in 1..Len(searches) :
              /\ searches[i].what = "hash" =>
                    /\ searches[i].moviehash = os_args.hash
                    /\ searches[i].moviebytesize # None
              /\ searches[i].what = "imdbid" => searches[i].imdbid = os_args.imdb_id
              /\ searches[i].what = "query" =>
                    /\ searches[i].query # None
                    /\ IF os_args.season # None /\ os_args.episode # None
                       THEN /\ searches[i].season = os_args.season
                            /\ searches[i].episode = os_args.episode
                       ELSE searches[i].season = None /\ searches[i].episode = None
        /\ \A k \in 1..Len(os_requests) : os_requests[k].searches # <<>>
        /\ AllowedKinds(os_args) = <<>> =>
              /\ os_result.status = "ValueError"
              /\ os_requests = <<>>

\* all three searches were built and sent in one request
C11_Witness ==
    /\ os_pc = "done"
    /\ SearchKinds = <<"hash", "imdbid", "query">>
    /\ searches[3].season # None
    /\ Len(os_requests) = 1

\* nothing could be built: the raise, with no request
C11_WitnessRaise ==
    /\ os_pc = "raised"
    /\ searches = <<>>
    /\ os_result.status = "ValueError"
    /\ os_args.hash # None
====
